---------------------------- MODULE Spec2Model ----------------------------
(***************************************************************************)
(* A model of gort's discovery-and-scan pipeline:                          *)
(*   - pScan.ParseHostString / AsyncNewTarget / NewTarget / Target.Resolve *)
(*     (target construction under the weighted semaphore),                 *)
(*   - pScan.Targets.Scan / Target.Scan / Target.scan / Target.scanPort    *)
(*     (the port scan pipeline under the weighted semaphore).              *)
(* Every goroutine is a process with a program counter; a step of the      *)
(* model is one access to shared state (the semaphore, Target.Status, a    *)
(* channel) together with the goroutine-local code that follows it.        *)
(***************************************************************************)
EXTENDS Integers, Sequences, FiniteSets, Bags, TLC

(***************************************************************************)
(* Bounds of the model.                                                    *)
(***************************************************************************)
\* most port probes of one scan: a Target.Scan has up to MaxProbes ports, a
\* Targets.Scan of several Targets has targets * ports <= MaxProbes
MaxProbes == 2
\* most resolution units spawned by one ParseHostString, and most host tokens
MaxUnits == 2
\* bits of one octet of an address (8 in the program; the model scales an
\* address down to IPv4len octets of OctetBits bits)
OctetBits == 2
\* most "too many open files" resubmissions in one scan
MaxRetries == 1
\* largest semaphore capacity (the descriptor limit) of a scan
MaxScanLimit == 2

(***************************************************************************)
(* Program constants.                                                      *)
(***************************************************************************)
\* TargetStatus (iota + 1)
Online == 1
OfflineFiltered == 2
Unknown == 3
\* NetworkLocation (iota + 1 continues in the same const block)
Local == 4
Global == 5
UnknownLoc == 6
\* weight a port probe acquires and releases
ProbeWeight == 1
\* weight a resolution unit acquires, and the weight it releases
UnitWeight == 4
UnitRelease == 3
\* octets of an address
IPv4len == 4
\* Location of a Target literal that does not set it
NoLocation == 0

\* a nil net.IP
NilIP == << >>

MaxPorts == MaxProbes
MaxTargets == MaxProbes

TargetStatus == {Online, OfflineFiltered, Unknown}

(***************************************************************************)
(* Connect errors.  An error is its text, a sequence of words, so that the *)
(* strings.HasSuffix tests of scanPort are computed on the text.           *)
(* net.DialTimeout returns either no error or a *net.OpError.              *)
(***************************************************************************)
NoErr == << >>
ErrRefused == <<"dial", "tcp", "connect:", "connection", "refused">>
ErrRefusedWin == <<"dial", "tcp", "connectex:", "No", "connection", "could", "be",
                   "made", "because", "the", "target", "machine", "actively",
                   "refused", "it.">>
ErrTimeout == <<"dial", "tcp", "i/o", "timeout">>
ErrTooManyFiles == <<"dial", "tcp", "socket:", "too", "many", "open", "files">>
ErrNoRoute == <<"dial", "tcp", "connect:", "no", "route", "to", "host">>

DialErrors == {ErrRefused, ErrRefusedWin, ErrTimeout, ErrTooManyFiles, ErrNoRoute}

SufRefusedWin == <<"No", "connection", "could", "be", "made", "because", "the",
                   "target", "machine", "actively", "refused", "it.">>
SufRefused == <<"connect:", "connection", "refused">>
SufTimeout == <<"i/o", "timeout">>
SufTooManyFiles == <<"too", "many", "open", "files">>

HasSuffix(s, suf) ==
    /\ Len(suf) <= Len(s)
    /\ SubSeq(s, Len(s) - Len(suf) + 1, Len(s)) = suf

IsRefused(err) == HasSuffix(err, SufRefusedWin) \/ HasSuffix(err, SufRefused)
IsTimeout(err) == HasSuffix(err, SufTimeout)
IsTooManyFiles(err) == HasSuffix(err, SufTooManyFiles)

(***************************************************************************)
(* PortResults.                                                            *)
(***************************************************************************)
NewPortResults == [Open |-> << >>, Closed |-> << >>, Filtered |-> << >>]

\* a classification whose timeout test also takes a refused connect
ClassifyRefusedTwice(err, p) ==
    [Open |-> << >>,
     Closed |-> IF IsRefused(err) THEN <<p>> ELSE << >>,
     Filtered |-> IF IsRefused(err) \/ IsTimeout(err) THEN <<p>> ELSE << >>]

\* res after the two classification tests of a failed connect
ClassifyErr(err, p) ==
    [Open |-> << >>,
     Closed |-> IF IsRefused(err) THEN <<p>> ELSE << >>,
     Filtered |-> IF IsTimeout(err) THEN <<p>> ELSE << >>]

\* a collecting loop whose first append takes pI.Closed as well
MergeClosedIntoOpen(r, pI) ==
    [Open |-> r.Open \o pI.Open \o pI.Closed,
     Closed |-> r.Closed \o pI.Closed,
     Filtered |-> r.Filtered \o pI.Filtered]

\* the three appends of the collecting loop
MergeResults(r, pI) ==
    [Open |-> r.Open \o pI.Open,
     Closed |-> r.Closed \o pI.Closed,
     Filtered |-> r.Filtered \o pI.Filtered]

(***************************************************************************)
(* The weighted semaphore (golang.org/x/sync/semaphore): Acquire(n) blocks *)
(* until n more units fit below the size and then reserves them, Release   *)
(* gives n units back.  All acquirers of one semaphore here ask for the    *)
(* same weight, so the FIFO order of waiters does not change what is       *)
(* reachable.                                                              *)
(***************************************************************************)
\* an Acquire that only asks whether the semaphore is full
CanAcquireBelowSize(c, size, n) == c < size
CanAcquire(c, size, n) == c + n <= size
AfterAcquire(c, n) == c + n
AfterRelease(c, n) == c - n

NoLoop == [mode |-> "none"]

VARIABLES
    entry,      \* the operation running: "Targets.Scan", "Target.Scan", "ParseHostString", "NewTarget"
    limit,      \* size of the semaphore `lock`
    cur,        \* weight of `lock` acquired and not released
    tgt,        \* the Targets: a sequence of Target records
    mpc,        \* program counter of the calling goroutine
    Unresolved, \* multiScanRes.Unresolved (indices into tgt)
    Resolved,   \* multiScanRes.Resolved (ScanResults)
    spc,        \* per target: program counter of its Target.scan / Target.Scan
    rcv,        \* per target: messages received from ch so far
    r,          \* per target: r.Ports of its ScanResult
    pr,         \* per target, per Ports entry: the current scanPort goroutine
    tail,       \* per target, per Ports entry: resubmitting goroutines that still hold weight
    retries,    \* resubmissions so far
    hosts,      \* ParseHostString: the host tokens of hostArgs
    tokIdx,     \* ParseHostString: index of the token loop
    loop,       \* ParseHostString: the inner loop of the current token
    hostCount,  \* ParseHostString: hostCount
    units,      \* the AsyncNewTarget goroutines (NewTarget: the one call), in spawn order
    tgtHosts    \* ParseHostString: tgtHosts

scanVars == <<tgt, mpc, Unresolved, Resolved, spc, rcv, r, pr, tail, retries>>
scanVarsButPr == <<tgt, mpc, Unresolved, Resolved, spc, rcv, r, tail, retries>>
parseVars == <<hosts, tokIdx, loop, hostCount, units, tgtHosts>>
vars == <<entry, limit, cur, scanVars, parseVars>>

(***************************************************************************)
(* Inputs of a scan.                                                       *)
(***************************************************************************)
\* Ports sequences.  scanPort never reads a port number, so the numbers are
\* labels: all entries different, or the first two entries the same port.
PortSeqs ==
    {[i \in 1..n |-> i] : n \in 0..MaxPorts}
        \cup {[i \in 1..n |-> IF i = 1 THEN 1 ELSE i - 1] : n \in 2..MaxPorts}

ResolvedTarget(st, ps) ==
    [IPAddr |-> <<1, 0, 0, 1>>, MACAddr |-> "nil", Location |-> Global, Status |-> st,
     Ports |-> ps]
UnresolvedTarget(st, ps) ==
    [IPAddr |-> NilIP, MACAddr |-> "nil", Location |-> UnknownLoc, Status |-> st,
     Ports |-> ps]

\* a Target as AsyncNewTarget leaves it: with an address its Status is Unknown
\* or Online, without one Unknown or OfflineFiltered
TargetInputs(ps) ==
    {ResolvedTarget(st, ps) : st \in {Unknown, Online}}
        \cup {UnresolvedTarget(st, ps) : st \in {Unknown, OfflineFiltered}}


\* the Targets of ParseHostString: every Target has the same Ports
TargetsInputs ==
    {ts \in UNION {[1..n -> UNION {TargetInputs(ps) : ps \in PortSeqs}] : n \in 0..MaxTargets} :
        /\ \A t \in 1..Len(ts) : ts[t].Ports = ts[1].Ports
        /\ Len(ts) > 1 => Len(ts) * Len(ts[1].Ports) <= MaxProbes}

\* no ParseHostString is running
NoParse ==
    /\ hosts = << >>
    /\ tokIdx = 1
    /\ loop = NoLoop
    /\ hostCount = 0
    /\ units = << >>
    /\ tgtHosts = << >>

IdleProbe == [pc |-> "idle", err |-> NoErr, res |-> NewPortResults]
\* a goroutine that has returned: its result has been handed over, err is
\* kept as the record of how its connect ended
DoneProbe(e) == [pc |-> "done", err |-> e, res |-> NewPortResults]

InitScanState(ts, s0) ==
    /\ tgt = ts
    /\ Unresolved = << >>
    /\ Resolved = << >>
    /\ spc = [t \in 1..Len(ts) |-> s0]
    /\ rcv = [t \in 1..Len(ts) |-> 0]
    /\ r = [t \in 1..Len(ts) |-> NewPortResults]
    /\ pr = [t \in 1..Len(ts) |-> [i \in 1..Len(ts[t].Ports) |-> IdleProbe]]
    /\ tail = [t \in 1..Len(ts) |-> [i \in 1..Len(ts[t].Ports) |-> 0]]
    /\ retries = 0
    /\ cur = 0
    /\ NoParse

\* Targets.Scan is called on any Targets
TargetsScanEntry ==
    /\ entry = "Targets.Scan"
    /\ mpc = "dispatch"
    /\ \E ts \in TargetsInputs : InitScanState(ts, "idle")

InitTargetsScan ==
    /\ limit \in 1..MaxScanLimit
    /\ TargetsScanEntry

\* Target.Scan is called on one Target with an address
TargetScanEntry ==
    /\ entry = "Target.Scan"
    /\ mpc = "scan"
    /\ \E ps \in PortSeqs, st \in TargetStatus : InitScanState(<<ResolvedTarget(st, ps)>>, "start")

InitTargetScan ==
    /\ limit \in 1..MaxScanLimit
    /\ TargetScanEntry

\* Target.Scan is called on a Target whose Status is Unknown
InitTargetScanUnknown ==
    /\ InitTargetScan
    /\ tgt[1].Status = Unknown

InitScan == InitTargetsScan \/ InitTargetScan

(***************************************************************************)
(* Targets.Scan: the calling goroutine.                                    *)
(***************************************************************************)
\* a dispatch loop that appends every Target to Unresolved
EveryTarget(ts, i) == [k \in 1..(Len(ts) - i + 1) |-> k + i - 1]

\* the indices of ts, in order, whose Target has no address
RECURSIVE NilTargets(_, _)
NilTargets(ts, i) ==
    IF i > Len(ts) THEN << >>
    ELSE (IF ts[i].IPAddr = NilIP THEN <<i>> ELSE << >>) \o NilTargets(ts, i + 1)

\* a dispatch loop that starts Target.scan for a Target without address too
DispatchUnresolvedToo ==
    /\ entry = "Targets.Scan"
    /\ mpc = "dispatch"
    /\ Unresolved' = NilTargets(tgt, 1)
    /\ spc' = [t \in 1..Len(tgt) |-> "start"]
    /\ mpc' = "collect"
    /\ UNCHANGED <<parseVars, entry, limit, cur, tgt, Resolved, rcv, r, pr, tail, retries>>

\* the dispatch loop: a Target without address goes to Unresolved, any other
\* gets its own Target.scan goroutine.  The loop shares nothing with the
\* goroutines it starts, so it is one step.
Dispatch ==
    /\ entry = "Targets.Scan"
    /\ mpc = "dispatch"
    /\ Unresolved' = NilTargets(tgt, 1)
    /\ spc' = [t \in 1..Len(tgt) |-> IF tgt[t].IPAddr = NilIP THEN spc[t] ELSE "start"]
    /\ mpc' = "collect"
    /\ UNCHANGED <<parseVars, entry, limit, cur, tgt, Resolved, rcv, r, pr, tail, retries>>

\* a collecting loop that waits for a ScanResult of every Target
ExpectedOfEveryTarget == Len(tgt)

\* how many ScanResults the collecting loop waits for
Expected == Len(tgt) - Len(Unresolved)

\* `out <- r` of Target.scan meets `<-out` of the collecting loop
Deliver(t) ==
    /\ entry = "Targets.Scan"
    /\ spc[t] = "send"
    /\ mpc = "collect"
    /\ Len(Resolved) < Expected
    /\ Resolved' = Append(Resolved, [Target |-> t, Ports |-> r[t]])
    /\ spc' = [spc EXCEPT ![t] = "done"]
    /\ UNCHANGED <<parseVars, entry, limit, cur, tgt, mpc, Unresolved, rcv, r, pr, tail, retries>>

\* the collecting loop ends and Targets.Scan returns multiScanRes
ScanReturn ==
    /\ entry = "Targets.Scan"
    /\ mpc = "collect"
    /\ Len(Resolved) >= Expected
    /\ mpc' = "returned"
    /\ UNCHANGED <<parseVars, entry, limit, cur, tgt, Unresolved, Resolved, spc, rcv, r, pr,
                   tail, retries>>

(***************************************************************************)
(* Target.scan (a goroutine of Targets.Scan) and Target.Scan (called       *)
(* directly): one scanPort goroutine per Ports entry, then one receive per *)
(* Ports entry.                                                            *)
(***************************************************************************)
\* a receive loop that stops one message early
AfterRecvOneShort(t, n) == IF n + 1 >= Len(tgt[t].Ports) THEN "send" ELSE "recv"

\* the receive loop `for range t.Ports`: after n messages it receives again, or
\* the function goes on to its last statement
AfterRecv(t, n) == IF n >= Len(tgt[t].Ports) THEN "send" ELSE "recv"

StartProbes(t) ==
    /\ t \in 1..Len(tgt)
    /\ spc[t] = "start"
    /\ pr' = [pr EXCEPT ![t] = [i \in 1..Len(tgt[t].Ports) |->
                                   [pc |-> "acquire", err |-> NoErr, res |-> NewPortResults]]]
    /\ spc' = [spc EXCEPT ![t] = AfterRecv(t, 0)]
    /\ UNCHANGED <<parseVars, entry, limit, cur, tgt, mpc, Unresolved, Resolved, rcv, r, tail,
                   retries>>

\* Target.Scan returns r
TargetScanReturn ==
    /\ entry = "Target.Scan"
    /\ mpc = "scan"
    /\ spc[1] = "send"
    /\ mpc' = "returned"
    /\ spc' = [spc EXCEPT ![1] = "done"]
    /\ UNCHANGED <<parseVars, entry, limit, cur, tgt, Unresolved, Resolved, rcv, r, pr, tail,
                   retries>>

(***************************************************************************)
(* Target.scanPort, the goroutine of Ports entry i of target t.            *)
(***************************************************************************)
SetPc(t, i, pc) == [pr EXCEPT ![t][i].pc = pc]

\* lock.Acquire(context.TODO(), 1)
Acquire(t, i) ==
    /\ pr[t][i].pc = "acquire"
    /\ CanAcquire(cur, limit, ProbeWeight)
    /\ cur' = AfterAcquire(cur, ProbeWeight)
    /\ pr' = SetPc(t, i, "dial")
    /\ UNCHANGED <<parseVars, entry, limit, scanVarsButPr>>

\* net.DialTimeout succeeds: conn is open
DialOk(t, i) ==
    /\ pr[t][i].pc = "dial"
    /\ pr' = [pr EXCEPT ![t][i].pc = "setOnline", ![t][i].err = NoErr]
    /\ UNCHANGED <<parseVars, entry, limit, cur, scanVarsButPr>>

\* where a failed probe goes after the Status block: the two classification
\* tests, then the test for "too many open files"
Classified(t, i, err) ==
    [pc |-> IF IsTooManyFiles(err) THEN "sleep" ELSE "release",
     err |-> err,
     res |-> ClassifyErr(err, tgt[t].Ports[i])]

\* net.DialTimeout fails with a *net.OpError
DialErr(t, i) ==
    /\ pr[t][i].pc = "dial"
    /\ \E e \in DialErrors :
        /\ IsTooManyFiles(e) => retries < MaxRetries
        /\ retries' = IF IsTooManyFiles(e) THEN retries + 1 ELSE retries
        /\ pr' = [pr EXCEPT ![t][i].pc = "guard", ![t][i].err = e]
    /\ UNCHANGED <<parseVars, entry, limit, cur, tgt, mpc, Unresolved, Resolved, spc, rcv, r, tail>>

\* t.Status = Online; res.Open = append(res.Open, p)
SetOnlineOpen(t, i) ==
    /\ pr[t][i].pc = "setOnline"
    /\ tgt' = [tgt EXCEPT ![t].Status = Online]
    /\ pr' = [pr EXCEPT ![t][i].pc = "sendOpen", ![t][i].res.Open = <<tgt[t].Ports[i]>>]
    /\ UNCHANGED <<parseVars, entry, limit, cur, mpc, Unresolved, Resolved, spc, rcv, r, tail,
                   retries>>

\* `ch <- res` meets `pI := <-ch` and the three appends of the collecting loop
Receive(t, i, from, to) ==
    /\ pr[t][i].pc = from
    /\ spc[t] = "recv"
    /\ r' = [r EXCEPT ![t] = MergeResults(r[t], pr[t][i].res)]
    /\ rcv' = [rcv EXCEPT ![t] = rcv[t] + 1]
    /\ spc' = [spc EXCEPT ![t] = AfterRecv(t, rcv[t] + 1)]
    /\ pr' = [pr EXCEPT ![t][i] = IF to = "done" THEN DoneProbe(@.err) ELSE [@ EXCEPT !.pc = to]]
    /\ UNCHANGED <<parseVars, entry, limit, cur, tgt, mpc, Unresolved, Resolved, tail, retries>>

\* ch <- res of the open branch, still holding the weight
SendOpen(t, i) == Receive(t, i, "sendOpen", "releaseOpen")

\* lock.Release(1) of the open branch
ReleaseOpen(t, i) ==
    /\ pr[t][i].pc = "releaseOpen"
    /\ cur' = AfterRelease(cur, ProbeWeight)
    /\ pr' = SetPc(t, i, "close")
    /\ UNCHANGED <<parseVars, entry, limit, scanVarsButPr>>

\* the deferred conn.Close() runs at the return
CloseConn(t, i) ==
    /\ pr[t][i].pc = "close"
    /\ pr' = [pr EXCEPT ![t][i] = DoneProbe(@.err)]
    /\ UNCHANGED <<parseVars, entry, limit, cur, scanVarsButPr>>

\* the guard `t.Status == Unknown || t.Status == OfflineFiltered` reads Status;
\* the branch taken inside depends on the error text alone
StatusGuard(t, i) ==
    /\ pr[t][i].pc = "guard"
    /\ LET err == pr[t][i].err IN
       pr' = [pr EXCEPT ![t][i] =
                IF tgt[t].Status \in {Unknown, OfflineFiltered} /\ IsRefused(err)
                  THEN [@ EXCEPT !.pc = "writeOnline"]
                ELSE IF tgt[t].Status \in {Unknown, OfflineFiltered} /\ IsTimeout(err)
                  THEN [@ EXCEPT !.pc = "readUnknown"]
                ELSE Classified(t, i, err)]
    /\ UNCHANGED <<parseVars, entry, limit, cur, scanVarsButPr>>

\* t.Status = Online of the refused branch
WriteOnline(t, i) ==
    /\ pr[t][i].pc = "writeOnline"
    /\ tgt' = [tgt EXCEPT ![t].Status = Online]
    /\ pr' = [pr EXCEPT ![t][i] = Classified(t, i, pr[t][i].err)]
    /\ UNCHANGED <<parseVars, entry, limit, cur, mpc, Unresolved, Resolved, spc, rcv, r, tail,
                   retries>>

\* a timeout branch that never reaches its write
ReadUnknownSkipsWrite(t, i) ==
    /\ pr[t][i].pc = "readUnknown"
    /\ pr' = [pr EXCEPT ![t][i] = Classified(t, i, pr[t][i].err)]
    /\ UNCHANGED <<parseVars, entry, limit, cur, scanVarsButPr>>

\* the second read of Status, `&& t.Status == Unknown`, of the timeout branch
ReadUnknown(t, i) ==
    /\ pr[t][i].pc = "readUnknown"
    /\ pr' = [pr EXCEPT ![t][i] =
                IF tgt[t].Status = Unknown
                  THEN [@ EXCEPT !.pc = "writeOffline"]
                  ELSE Classified(t, i, pr[t][i].err)]
    /\ UNCHANGED <<parseVars, entry, limit, cur, scanVarsButPr>>

\* t.Status = OfflineFiltered of the timeout branch
WriteOffline(t, i) ==
    /\ pr[t][i].pc = "writeOffline"
    /\ tgt' = [tgt EXCEPT ![t].Status = OfflineFiltered]
    /\ pr' = [pr EXCEPT ![t][i] = Classified(t, i, pr[t][i].err)]
    /\ UNCHANGED <<parseVars, entry, limit, cur, mpc, Unresolved, Resolved, spc, rcv, r, tail,
                   retries>>

\* time.Sleep(timeOut) of the "too many open files" branch
Sleep(t, i) ==
    /\ pr[t][i].pc = "sleep"
    /\ pr' = SetPc(t, i, "resubmit")
    /\ UNCHANGED <<parseVars, entry, limit, cur, scanVarsButPr>>

\* go t.scanPort(p, ch, lock): a new goroutine takes over the Ports entry, the
\* old one still has its lock.Release(1) to do
Resubmit(t, i) ==
    /\ pr[t][i].pc = "resubmit"
    /\ pr' = [pr EXCEPT ![t][i] = [pc |-> "acquire", err |-> NoErr, res |-> NewPortResults]]
    /\ tail' = [tail EXCEPT ![t][i] = tail[t][i] + 1]
    /\ UNCHANGED <<parseVars, entry, limit, cur, tgt, mpc, Unresolved, Resolved, spc, rcv, r,
                   retries>>

\* a resubmitting goroutine that returns without its Release
ResubmittedKeepsWeight(t, i) ==
    /\ tail[t][i] > 0
    /\ tail' = [tail EXCEPT ![t][i] = tail[t][i] - 1]
    /\ UNCHANGED <<parseVars, entry, limit, cur, tgt, mpc, Unresolved, Resolved, spc, rcv, r, pr,
                   retries>>

\* lock.Release(1); return of a goroutine that has resubmitted its port
ReleaseResubmitted(t, i) ==
    /\ tail[t][i] > 0
    /\ cur' = AfterRelease(cur, ProbeWeight)
    /\ tail' = [tail EXCEPT ![t][i] = tail[t][i] - 1]
    /\ UNCHANGED <<parseVars, entry, limit, tgt, mpc, Unresolved, Resolved, spc, rcv, r, pr,
                   retries>>

\* lock.Release(1) at the end of scanPort
Release(t, i) ==
    /\ pr[t][i].pc = "release"
    /\ cur' = AfterRelease(cur, ProbeWeight)
    /\ pr' = SetPc(t, i, "send")
    /\ UNCHANGED <<parseVars, entry, limit, scanVarsButPr>>

\* ch <- res at the end of scanPort
Send(t, i) == Receive(t, i, "send", "done")

Probes == {ti \in (1..Len(tgt)) \X (1..MaxPorts) : ti[2] <= Len(tgt[ti[1]].Ports)}

NextProbes ==
    \/ \E ti \in Probes : Acquire(ti[1], ti[2])
    \/ \E ti \in Probes : DialOk(ti[1], ti[2])
    \/ \E ti \in Probes : DialErr(ti[1], ti[2])
    \/ \E ti \in Probes : SetOnlineOpen(ti[1], ti[2])
    \/ \E ti \in Probes : SendOpen(ti[1], ti[2])
    \/ \E ti \in Probes : ReleaseOpen(ti[1], ti[2])
    \/ \E ti \in Probes : CloseConn(ti[1], ti[2])
    \/ \E ti \in Probes : StatusGuard(ti[1], ti[2])
    \/ \E ti \in Probes : WriteOnline(ti[1], ti[2])
    \/ \E ti \in Probes : ReadUnknown(ti[1], ti[2])
    \/ \E ti \in Probes : WriteOffline(ti[1], ti[2])
    \/ \E ti \in Probes : Sleep(ti[1], ti[2])
    \/ \E ti \in Probes : Resubmit(ti[1], ti[2])
    \/ \E ti \in Probes : ReleaseResubmitted(ti[1], ti[2])
    \/ \E ti \in Probes : Release(ti[1], ti[2])
    \/ \E ti \in Probes : Send(ti[1], ti[2])

\* Target.Scan of one Target
NextTargetScan ==
    \/ StartProbes(1)
    \/ TargetScanReturn
    \/ NextProbes

\* Targets.Scan
NextTargetsScan ==
    \/ Dispatch
    \/ ScanReturn
    \/ \E t \in 1..Len(tgt) : Deliver(t)
    \/ \E t \in 1..Len(tgt) : StartProbes(t)
    \/ NextProbes

NextScan == NextTargetScan \/ NextTargetsScan

SpecTargetScan == InitTargetScan /\ [][NextTargetScan]_vars
SpecTargetScanUnknown == InitTargetScanUnknown /\ [][NextTargetScan]_vars
SpecTargetsScan == InitTargetsScan /\ [][NextTargetsScan]_vars
\* either scan operation
SpecScan == InitScan /\ [][NextScan]_vars

(***************************************************************************)
(* Addresses.  An address is IPv4len octets; its text (ip.String(), or the *)
(* "%d.%d.%d.%d" of octetsToTargets) is the sequence of the four numbers,  *)
(* which net.ParseIP accepts only when every one is an octet.              *)
(***************************************************************************)
RECURSIVE Pow2(_)
Pow2(n) == IF n = 0 THEN 1 ELSE 2 * Pow2(n - 1)

OctetSize == Pow2(OctetBits)
AddrBits == IPv4len * OctetBits
Octets == 0..(OctetSize - 1)
Addrs == [1..IPv4len -> Octets]

Min(a, b) == IF a < b THEN a ELSE b
Max(a, b) == IF a > b THEN a ELSE b

\* bits of a prefix of length p that fall into octet j
MaskBits(p, j) == Min(Max(p - (j - 1) * OctetBits, 0), OctetBits)

\* ip.Mask(ipNet.Mask): the octets and'ed with the mask of prefix length p
Mask(ip, p) ==
    [j \in 1..IPv4len |-> ip[j] - (ip[j] % Pow2(OctetBits - MaskBits(p, j)))]

\* ipNet.Contains(ip) for the network nw with prefix length p
Contains(nw, p, ip) == \A j \in 1..IPv4len : Mask(nw, p)[j] = Mask(ip, p)[j]

\* helper.IncIp: add one to the last octet and carry while an octet wraps to 0
RECURSIVE IncFrom(_, _)
IncFrom(ip, j) ==
    IF j = 0 THEN ip
    ELSE LET v == (ip[j] + 1) % OctetSize IN
         IF v > 0 THEN [ip EXCEPT ![j] = v]
         ELSE IncFrom([ip EXCEPT ![j] = 0], j - 1)

IncIp(ip) == IncFrom(ip, IPv4len)

\* ip.String(): the dotted text of an address
IPString(ip) == [kind |-> "dotted", parts |-> [j \in 1..IPv4len |-> <<ip[j]>>]]

(***************************************************************************)
(* Host tokens.                                                            *)
(*   cidr:   an address and a prefix length, "a.b.c.d/p"                   *)
(*   dotted: four parts, each a number <<n>> or a dash range <<a, b>>      *)
(*   host:   a host name                                                   *)
(***************************************************************************)
HasDash(tok) == tok.kind = "dotted" /\ \E j \in 1..IPv4len : Len(tok.parts[j]) = 2

\* helper.ValidateIPOrRange: the token is a dotted address or dash range
ValidateIPOrRange(tok) == tok.kind = "dotted"

\* net.ParseIP: the address of a dotted text whose parts are four octets
ParseIP(tok) ==
    IF /\ tok.kind = "dotted"
       /\ \A j \in 1..IPv4len : Len(tok.parts[j]) = 1 /\ tok.parts[j][1] \in Octets
      THEN [j \in 1..IPv4len |-> tok.parts[j][1]]
      ELSE NilIP

\* helper.StrRangeToArray: the integers of "a-b", ascending
RECURSIVE RangeSeq(_, _)
RangeSeq(a, b) == IF a > b THEN << >> ELSE <<a>> \o RangeSeq(a + 1, b)

StrRangeToArray(part) == RangeSeq(part[1], part[2])

\* the octets array ParseHostString builds for a dash range token
OctetLists(tok) ==
    [j \in 1..IPv4len |->
        IF Len(tok.parts[j]) = 2 THEN StrRangeToArray(tok.parts[j]) ELSE <<tok.parts[j][1]>>]

\* nested loops with the first octet innermost: the same addresses, the
\* first octet varying fastest
RECURSIVE CrossFirstFastest(_, _)
CrossFirstFastest(octets, j) ==
    IF j > IPv4len THEN << << >> >>
    ELSE LET rest == CrossFirstFastest(octets, j + 1)
             RECURSIVE Inner(_)
             Inner(m) ==
                 IF m > Len(rest) THEN << >>
                 ELSE [k \in 1..Len(octets[j]) |-> <<octets[j][k]>> \o rest[m]] \o Inner(m + 1)
         IN Inner(1)

\* octetsToTargets: the four nested loops, the first octet outermost
RECURSIVE Cross(_, _)
Cross(octets, j) ==
    IF j > IPv4len THEN << << >> >>
    ELSE LET rest == Cross(octets, j + 1)
             RECURSIVE Outer(_)
             Outer(k) ==
                 IF k > Len(octets[j]) THEN << >>
                 ELSE [m \in 1..Len(rest) |-> <<octets[j][k]>> \o rest[m]] \o Outer(k + 1)
         IN Outer(1)

octetsToTargets(octets) ==
    LET quads == Cross(octets, 1) IN
    [m \in 1..Len(quads) |->
        [kind |-> "dotted", parts |-> [j \in 1..IPv4len |-> <<quads[m][j]>>]]]

(***************************************************************************)
(* AsyncNewTarget and NewTarget.                                           *)
(***************************************************************************)
\* h := &Target{InitialTarget: t, Ports: ports, Status: Unknown}
NewUnit(t, pc) ==
    [InitialTarget |-> t, pc |-> pc, IPAddr |-> NilIP, MACAddr |-> "nil",
     Location |-> NoLocation, Status |-> Unknown, ran |-> {}]

\* an else branch that leaves Location as the constructor made it
NoAddressKeepsLocation(h) == [h EXCEPT !.MACAddr = "nil", !.pc = "release"]

\* the else branch of the constructor: h.MACAddr = nil; h.Location = UnknownLoc
NoAddress(h) == [h EXCEPT !.MACAddr = "nil", !.Location = UnknownLoc, !.pc = "release"]

\* where the constructor goes after h.Resolve()
AfterResolve(h) == IF h.IPAddr # NilIP THEN [h EXCEPT !.pc = "ping"] ELSE NoAddress(h)

\* Target.Resolve of an IP-like InitialTarget: the address is what net.ParseIP
\* makes of the text
ResolveDotted(h) == [h EXCEPT !.IPAddr = ParseIP(h.InitialTarget)]

\* Target.Resolve of a host name: the first address of net.LookupIP, or no
\* address and Status OfflineFiltered when the lookup fails
ResolveHost(h, ips) ==
    IF ips # << >>
      THEN [h EXCEPT !.IPAddr = ips[1]]
      ELSE [h EXCEPT !.IPAddr = NilIP, !.Status = OfflineFiltered]

\* what net.LookupIP may answer: an error, or one address
LookupAnswers == {<< >>, <<[j \in 1..IPv4len |-> 1]>>}

\* scanLock.Acquire(context.TODO(), 4)
UnitAcquire(u) ==
    /\ units[u].pc = "acquire"
    /\ CanAcquire(cur, limit, UnitWeight)
    /\ cur' = AfterAcquire(cur, UnitWeight)
    /\ units' = [units EXCEPT ![u].pc = "resolve"]
    /\ UNCHANGED <<scanVars, entry, limit, hosts, tokIdx, loop, hostCount, tgtHosts>>

\* h.Resolve() and the test of h.IPAddr after it
Resolve(u) ==
    /\ units[u].pc = "resolve"
    /\ IF ValidateIPOrRange(units[u].InitialTarget)
         THEN units' = [units EXCEPT ![u] = AfterResolve(ResolveDotted(@))]
         ELSE \E ips \in LookupAnswers :
                units' = [units EXCEPT ![u] = AfterResolve(ResolveHost(@, ips))]
    /\ UNCHANGED <<scanVars, entry, limit, cur, hosts, tokIdx, loop, hostCount, tgtHosts>>

\* h.Ping(3, privileged): Status becomes Online when a reply came
Ping(u) ==
    /\ units[u].pc = "ping"
    /\ \E recv \in BOOLEAN :
        units' = [units EXCEPT ![u].pc = "queryMac",
                               ![u].ran = @ \cup {"Ping"},
                               ![u].Status = IF recv THEN Online ELSE @]
    /\ UNCHANGED <<scanVars, entry, limit, cur, hosts, tokIdx, loop, hostCount, tgtHosts>>

\* what h.QueryMac() can leave: the target is this host or in the arp cache
\* (Local, an address), net.Interfaces fails (UnknownLoc), a local subnet
\* contains it and the arp request is answered (Local, an address, Online) or
\* not (Local), no local subnet contains it (Global)
MacAnswers ==
    {[Location |-> Local, MACAddr |-> "mac", online |-> FALSE],
     [Location |-> Local, MACAddr |-> "nil", online |-> FALSE],
     [Location |-> UnknownLoc, MACAddr |-> "nil", online |-> FALSE],
     [Location |-> Local, MACAddr |-> "mac", online |-> TRUE],
     [Location |-> Global, MACAddr |-> "nil", online |-> FALSE]}

QueryMac(u) ==
    /\ units[u].pc = "queryMac"
    /\ \E a \in MacAnswers :
        units' = [units EXCEPT ![u].pc = "lookUpVendor",
                               ![u].ran = @ \cup {"QueryMac"},
                               ![u].Location = a.Location,
                               ![u].MACAddr = a.MACAddr,
                               ![u].Status = IF a.online THEN Online ELSE @]
    /\ UNCHANGED <<scanVars, entry, limit, cur, hosts, tokIdx, loop, hostCount, tgtHosts>>

\* h.LookUpVendor()
LookUpVendor(u) ==
    /\ units[u].pc = "lookUpVendor"
    /\ units' = [units EXCEPT ![u].pc = "release", ![u].ran = @ \cup {"LookUpVendor"}]
    /\ UNCHANGED <<scanVars, entry, limit, cur, hosts, tokIdx, loop, hostCount, tgtHosts>>

\* a unit that gives back all it acquired
UnitReleaseAll(u) ==
    /\ entry = "ParseHostString"
    /\ units[u].pc = "release"
    /\ cur' = AfterRelease(cur, UnitWeight)
    /\ units' = [units EXCEPT ![u].pc = "send"]
    /\ UNCHANGED <<scanVars, entry, limit, hosts, tokIdx, loop, hostCount, tgtHosts>>

\* scanLock.Release(3)
UnitRelease3(u) ==
    /\ entry = "ParseHostString"
    /\ units[u].pc = "release"
    /\ cur' = AfterRelease(cur, UnitRelease)
    /\ units' = [units EXCEPT ![u].pc = "send"]
    /\ UNCHANGED <<scanVars, entry, limit, hosts, tokIdx, loop, hostCount, tgtHosts>>

\* NewTarget returns h
NewTargetReturn ==
    /\ entry = "NewTarget"
    /\ units[1].pc = "release"
    /\ units' = [units EXCEPT ![1].pc = "done"]
    /\ mpc' = "returned"
    /\ UNCHANGED <<entry, limit, cur, tgt, Unresolved, Resolved, spc, rcv, r, pr, tail,
                   retries, hosts, tokIdx, loop, hostCount, tgtHosts>>


(***************************************************************************)
(* ParseHostString: the calling goroutine.                                 *)
(***************************************************************************)
\* the model stops spawning here; an expansion that ends spawns fewer
SpawnCap == Pow2(AddrBits) + 1

\* a spawn that forgets hostCount++
SpawnUncounted(t) ==
    /\ Len(units) < SpawnCap
    /\ units' = Append(units, NewUnit(t, "acquire"))
    /\ hostCount' = hostCount

\* go AsyncNewTarget(t, ports, out, lock, privileged); hostCount++
Spawn(t) ==
    /\ Len(units) < SpawnCap
    /\ units' = Append(units, NewUnit(t, "acquire"))
    /\ hostCount' = hostCount + 1

AtToken ==
    /\ entry = "ParseHostString"
    /\ mpc = "expand"
    /\ loop.mode = "none"
    /\ tokIdx <= Len(hosts)

\* net.ParseCIDR succeeds: the loop starts at ip.Mask(ipNet.Mask)
StartCIDR ==
    /\ AtToken
    /\ hosts[tokIdx].kind = "cidr"
    /\ loop' = [mode |-> "cidr",
                ip |-> Mask(hosts[tokIdx].ip, hosts[tokIdx].prefix),
                nw |-> Mask(hosts[tokIdx].ip, hosts[tokIdx].prefix),
                prefix |-> hosts[tokIdx].prefix]
    /\ UNCHANGED <<scanVars, entry, limit, cur, hosts, tokIdx, hostCount, units, tgtHosts>>

\* ipNet.Contains(ip): spawn a unit for ip.String(), then helper.IncIp(ip)
CidrSpawn ==
    /\ entry = "ParseHostString"
    /\ mpc = "expand"
    /\ loop.mode = "cidr"
    /\ Contains(loop.nw, loop.prefix, loop.ip)
    /\ Spawn(IPString(loop.ip))
    /\ loop' = [loop EXCEPT !.ip = IncIp(loop.ip)]
    /\ UNCHANGED <<scanVars, entry, limit, cur, hosts, tokIdx, tgtHosts>>

\* !ipNet.Contains(ip): the loop of the CIDR token ends
CidrExit ==
    /\ entry = "ParseHostString"
    /\ mpc = "expand"
    /\ loop.mode = "cidr"
    /\ ~Contains(loop.nw, loop.prefix, loop.ip)
    /\ loop' = NoLoop
    /\ tokIdx' = tokIdx + 1
    /\ UNCHANGED <<scanVars, entry, limit, cur, hosts, hostCount, units, tgtHosts>>

\* a dash range token: the loop runs over octetsToTargets(octets)
StartRange ==
    /\ AtToken
    /\ hosts[tokIdx].kind # "cidr"
    /\ ValidateIPOrRange(hosts[tokIdx])
    /\ HasDash(hosts[tokIdx])
    /\ loop' = [mode |-> "range", queue |-> octetsToTargets(OctetLists(hosts[tokIdx]))]
    /\ UNCHANGED <<scanVars, entry, limit, cur, hosts, tokIdx, hostCount, units, tgtHosts>>

RangeSpawn ==
    /\ entry = "ParseHostString"
    /\ mpc = "expand"
    /\ loop.mode = "range"
    /\ loop.queue # << >>
    /\ Spawn(Head(loop.queue))
    /\ loop' = [loop EXCEPT !.queue = Tail(loop.queue)]
    /\ UNCHANGED <<scanVars, entry, limit, cur, hosts, tokIdx, tgtHosts>>

RangeExit ==
    /\ entry = "ParseHostString"
    /\ mpc = "expand"
    /\ loop.mode = "range"
    /\ loop.queue = << >>
    /\ loop' = NoLoop
    /\ tokIdx' = tokIdx + 1
    /\ UNCHANGED <<scanVars, entry, limit, cur, hosts, hostCount, units, tgtHosts>>

\* any other token is handed to one unit as it is
SpawnToken ==
    /\ AtToken
    /\ hosts[tokIdx].kind # "cidr"
    /\ ~(ValidateIPOrRange(hosts[tokIdx]) /\ HasDash(hosts[tokIdx]))
    /\ Spawn(hosts[tokIdx])
    /\ tokIdx' = tokIdx + 1
    /\ UNCHANGED <<scanVars, entry, limit, cur, hosts, loop, tgtHosts>>

\* the token loop ends
ExpandDone ==
    /\ entry = "ParseHostString"
    /\ mpc = "expand"
    /\ loop.mode = "none"
    /\ tokIdx > Len(hosts)
    /\ mpc' = "collect"
    /\ UNCHANGED <<entry, limit, cur, tgt, Unresolved, Resolved, spc, rcv, r, pr, tail,
                   retries, parseVars>>

\* the Target a unit delivers
TargetOf(h) ==
    [InitialTarget |-> h.InitialTarget, IPAddr |-> h.IPAddr, MACAddr |-> h.MACAddr,
     Location |-> h.Location, Status |-> h.Status]

\* `ch <- h` of a unit meets `<-out` of the collecting loop
UnitDeliver(u) ==
    /\ entry = "ParseHostString"
    /\ units[u].pc = "send"
    /\ mpc = "collect"
    /\ Len(tgtHosts) < hostCount
    /\ tgtHosts' = Append(tgtHosts, TargetOf(units[u]))
    /\ units' = [units EXCEPT ![u].pc = "done"]
    /\ UNCHANGED <<scanVars, entry, limit, cur, hosts, tokIdx, loop, hostCount>>

\* the collecting loop ends and ParseHostString returns tgtHosts
ParseReturn ==
    /\ entry = "ParseHostString"
    /\ mpc = "collect"
    /\ Len(tgtHosts) >= hostCount
    /\ mpc' = "returned"
    /\ UNCHANGED <<entry, limit, cur, tgt, Unresolved, Resolved, spc, rcv, r, pr, tail,
                   retries, parseVars>>

(***************************************************************************)
(* Inputs of ParseHostString and NewTarget.                                *)
(***************************************************************************)
LastAddr == [j \in 1..IPv4len |-> OctetSize - 1]
SomeAddr == [j \in 1..IPv4len |-> IF j = 1 THEN 1 ELSE 0]

HostToken == [kind |-> "host", name |-> "example"]
\* a dotted token net.ParseIP rejects: its first number is no octet
BadDotted == [kind |-> "dotted", parts |-> [j \in 1..IPv4len |-> <<OctetSize>>]]
\* "1.0.n-m.1"
RangeToken(n, m) ==
    [kind |-> "dotted",
     parts |-> [j \in 1..IPv4len |-> IF j = 3 THEN <<n, m>> ELSE <<IF j = 2 THEN 0 ELSE 1>>]]
CidrToken(ip, p) == [kind |-> "cidr", ip |-> ip, prefix |-> p]

\* how many units a token spawns when its expansion ends
RECURSIVE Product(_, _)
Product(lists, j) == IF j > Len(lists) THEN 1 ELSE Len(lists[j]) * Product(lists, j + 1)

ExpansionSize(tok) ==
    IF tok.kind = "cidr" THEN Pow2(AddrBits - tok.prefix)
    ELSE IF HasDash(tok) THEN Product(OctetLists(tok), 1)
    ELSE 1

RECURSIVE TotalSize(_)
TotalSize(hs) == IF hs = << >> THEN 0 ELSE ExpansionSize(Head(hs)) + TotalSize(Tail(hs))

ParseTokens ==
    {HostToken, IPString(SomeAddr), BadDotted, CidrToken(LastAddr, AddrBits),
     CidrToken(LastAddr, AddrBits - 1)}
        \cup {RangeToken(1, m) : m \in 2..Min(MaxUnits, OctetSize - 1)}

ParseInputs ==
    {hs \in UNION {[1..n -> ParseTokens] : n \in 1..MaxUnits} : TotalSize(hs) <= MaxUnits}

\* capacities of the semaphore: room for one unit, for one unit beside one
\* leaked weight, for two units at once
ParseLimits == {UnitWeight, UnitWeight + 1, 2 * UnitWeight}



ParseEntry ==
    /\ entry = "ParseHostString"
    /\ mpc = "expand"
    /\ tgt = << >> /\ Unresolved = << >> /\ Resolved = << >>
    /\ spc = << >> /\ rcv = << >> /\ r = << >> /\ pr = << >> /\ tail = << >>
    /\ retries = 0
    /\ cur = 0
    /\ hosts \in ParseInputs
    /\ tokIdx = 1
    /\ loop = NoLoop
    /\ hostCount = 0
    /\ units = << >>
    /\ tgtHosts = << >>

InitParse ==
    /\ limit \in ParseLimits
    /\ ParseEntry

\* NewTarget is called with any token, a dash range too
InitNewTarget ==
    /\ entry = "NewTarget"
    /\ limit = 0
    /\ mpc = "construct"
    /\ tgt = << >> /\ Unresolved = << >> /\ Resolved = << >>
    /\ spc = << >> /\ rcv = << >> /\ r = << >> /\ pr = << >> /\ tail = << >>
    /\ retries = 0
    /\ cur = 0
    /\ hosts = << >>
    /\ tokIdx = 1
    /\ loop = NoLoop
    /\ hostCount = 0
    /\ \E t \in {HostToken, IPString(SomeAddr), BadDotted, RangeToken(1, 2)} :
            units = <<NewUnit(t, "resolve")>>
    /\ tgtHosts = << >>

Units == 1..Len(units)

NextExpand ==
    \/ StartCIDR
    \/ CidrSpawn
    \/ CidrExit
    \/ StartRange
    \/ RangeSpawn
    \/ RangeExit
    \/ SpawnToken
    \/ ExpandDone

NextParse ==
    \/ NextExpand
    \/ ParseReturn
    \/ NewTargetReturn
    \/ \E u \in Units : UnitAcquire(u)
    \/ \E u \in Units : Resolve(u)
    \/ \E u \in Units : Ping(u)
    \/ \E u \in Units : QueryMac(u)
    \/ \E u \in Units : LookUpVendor(u)
    \/ \E u \in Units : UnitRelease3(u)
    \/ \E u \in Units : UnitDeliver(u)

SpecParse == (InitParse \/ InitNewTarget) /\ [][NextParse]_vars

(***************************************************************************)
(* The expansion loops of ParseHostString on their own, over every CIDR    *)
(* block and over dash ranges: the units they spawn take no step.          *)
(***************************************************************************)
\* the last address of the block of ip with prefix length p
BlockLast(ip, p) ==
    [j \in 1..IPv4len |-> Mask(ip, p)[j] + Pow2(OctetBits - MaskBits(p, j)) - 1]

\* every block, named by its first and by its last address
CidrTokens ==
    UNION {{CidrToken(Mask(a, p), p), CidrToken(BlockLast(a, p), p)} :
                a \in Addrs, p \in 0..AddrBits}

\* dash range tokens: each part a number, a range of two or the range up to
\* the largest octet
RangeParts == {<<1>>, <<0, 1>>, <<1, OctetSize - 1>>}
RangeTokens ==
    {tok \in {[kind |-> "dotted", parts |-> ps] : ps \in [1..IPv4len -> RangeParts]} :
        HasDash(tok)}

ExpandTokens == CidrTokens \cup RangeTokens \cup {HostToken, IPString(SomeAddr), BadDotted}

InitExpand ==
    /\ entry = "ParseHostString"
    /\ limit = UnitWeight
    /\ mpc = "expand"
    /\ tgt = << >> /\ Unresolved = << >> /\ Resolved = << >>
    /\ spc = << >> /\ rcv = << >> /\ r = << >> /\ pr = << >> /\ tail = << >>
    /\ retries = 0
    /\ cur = 0
    /\ \E tok \in ExpandTokens : hosts = <<tok>>
    /\ tokIdx = 1
    /\ loop = NoLoop
    /\ hostCount = 0
    /\ units = << >>
    /\ tgtHosts = << >>

SpecExpand == InitExpand /\ [][NextExpand]_vars

(***************************************************************************)
(* Every operation.                                                        *)
(***************************************************************************)
Init == InitParse \/ InitNewTarget \/ InitScan
Next == NextParse \/ NextTargetsScan \/ TargetScanReturn
Spec == Init /\ [][Next]_vars


(***************************************************************************)
(* Claims about the port scan.                                             *)
(***************************************************************************)
\* every scanPort goroutine of target t has returned, the ones that
\* resubmitted their port too
ProbesFinished(t) ==
    \A i \in 1..Len(tgt[t].Ports) : pr[t][i].pc = "done" /\ tail[t][i] = 0

\* the probe of Ports entry i has returned and its connect was refused
EndedRefused(t, i) == pr[t][i].pc = "done" /\ pr[t][i].err \in {ErrRefused, ErrRefusedWin}

\* the probe of Ports entry i has returned and its connect timed out
EndedTimeout(t, i) == pr[t][i].pc = "done" /\ pr[t][i].err = ErrTimeout

\* C1: the probes of one Target whose Status started as Unknown have all
\* finished, one of them ended with "connection refused" and another with
\* "i/o timeout": then Status is Online, whatever the interleaving was.
C1_RefusedBeatsTimeout ==
    \A t \in 1..Len(tgt) :
        (/\ ProbesFinished(t)
         /\ \E i, j \in 1..Len(tgt[t].Ports) :
                i # j /\ EndedRefused(t, i) /\ EndedTimeout(t, j))
            => tgt[t].Status = Online

\* C2: once Status is Online, no step of a probe changes it to
\* OfflineFiltered or Unknown.
C2_OnlineIsKept ==
    [][\A t \in 1..Len(tgt) : tgt[t].Status = Online => tgt'[t].Status = Online]_vars

\* C3: the weight of the semaphore that is acquired and not released is
\* between 0 and its capacity, in ParseHostString (units acquire 4 and
\* release 3) and in Targets.Scan and Target.Scan (probes acquire 1 and
\* release 1).
C3_WeightWithinCapacity == 0 <= cur /\ cur <= limit

\* C3 happens: the capacity is used up while a probe waits to acquire, and
\* a probe that resubmitted its port still holds its weight
C3_Contention ==
    /\ entry = "Targets.Scan"
    /\ cur = limit
    /\ \E ti \in Probes : pr[ti[1]][ti[2]].pc = "acquire"
    /\ \E ti \in Probes : tail[ti[1]][ti[2]] > 0

\* C5: when Targets.Scan has returned, every Target without address is in
\* Unresolved exactly once and in no ScanResult of Resolved, every Target
\* with an address is the Target of exactly one ScanResult of Resolved and
\* not in Unresolved, and the two lengths add up to the number of Targets.
C5_ScanPartitions ==
    (entry = "Targets.Scan" /\ mpc = "returned") =>
        /\ \A t \in 1..Len(tgt) :
            LET inU == Cardinality({k \in 1..Len(Unresolved) : Unresolved[k] = t})
                inR == Cardinality({k \in 1..Len(Resolved) : Resolved[k].Target = t})
            IN IF tgt[t].IPAddr = NilIP THEN inU = 1 /\ inR = 0
                                        ELSE inU = 0 /\ inR = 1
        /\ Len(Resolved) + Len(Unresolved) = Len(tgt)

\* C5 happens: Targets.Scan has returned a result with both kinds of Target
C5_BothKinds ==
    /\ entry = "Targets.Scan"
    /\ mpc = "returned"
    /\ Unresolved # << >>
    /\ Resolved # << >>
    /\ \E k \in 1..Len(Resolved) : Resolved[k].Ports.Closed # << >>

\* the scan of target t is complete: its PortResults are merged
ScanComplete(t) == spc[t] \in {"send", "done"}

\* C6, as the program has it: in the PortResults of a completed scan every
\* port number occurs in Open, Closed and Filtered together at most as often
\* as Ports lists it; so a number listed once is in exactly one of the three
\* or in none.
C6_OnePerPortsEntry ==
    \A t \in 1..Len(tgt) : ScanComplete(t) =>
        \A p \in 1..MaxPorts :
            LET Count(s) == Cardinality({k \in 1..Len(s) : s[k] = p})
            IN Count(r[t].Open) + Count(r[t].Closed) + Count(r[t].Filtered)
                    <= Count(tgt[t].Ports)

\* C6, as stated: in the PortResults of a completed scan a port number is in
\* exactly one of Open, Closed, Filtered or in none, never in two of them and
\* never twice in one, also when Ports lists the number more than once.
C6_OnePerPortNumber ==
    \A t \in 1..Len(tgt) : ScanComplete(t) =>
        \A p \in 1..MaxPorts :
            LET Count(s) == Cardinality({k \in 1..Len(s) : s[k] = p})
            IN Count(r[t].Open) + Count(r[t].Closed) + Count(r[t].Filtered) <= 1

\* C6 happens: a completed scan of Ports that list one number twice has the
\* number once in Open and once in Closed
C6_RepeatedClassified ==
    \E t \in 1..Len(tgt) :
        /\ ScanComplete(t)
        /\ Len(tgt[t].Ports) = 2
        /\ tgt[t].Ports[1] = tgt[t].Ports[2]
        /\ Len(r[t].Open) = 1
        /\ Len(r[t].Closed) = 1

\* C7: a probe puts its port into at most one bucket, the one of its connect
\* outcome: success Open, "connection refused" Closed, "i/o timeout"
\* Filtered, "too many open files" and any other error none.
C7_BucketOfOutcome ==
    \A ti \in Probes :
        LET t == ti[1]
            p == tgt[t].Ports[ti[2]]
            probe == pr[t][ti[2]]
            only(b) == [NewPortResults EXCEPT ![b] = <<p>>]
        IN /\ probe.pc \in {"sendOpen"} => probe.res = only("Open")
           /\ probe.pc \in {"sleep", "resubmit", "release", "send"} =>
                probe.res = CASE probe.err \in {ErrRefused, ErrRefusedWin} -> only("Closed")
                              [] probe.err = ErrTimeout -> only("Filtered")
                              [] OTHER -> NewPortResults

\* C7 happens: a refused probe and a probe that failed with another error are
\* both about to send their results
C7_ReadyToSend ==
    \E t \in 1..Len(tgt) : \E i, j \in 1..Len(tgt[t].Ports) :
        /\ pr[t][i].pc = "send" /\ pr[t][i].err = ErrRefusedWin
        /\ pr[t][j].pc = "send" /\ pr[t][j].err = ErrNoRoute


(***************************************************************************)
(* Claims about ParseHostString, NewTarget and AsyncNewTarget.             *)
(***************************************************************************)
\* C4: for a host specification that expands to n addresses and a capacity
\* of at least 4, ParseHostString returns with exactly n Targets; no unit
\* waits for ever to acquire its weight or to deliver its Target.  Every
\* step of a unit ends, so ParseHostString fails to return only from a state
\* in which nothing can take a step.
C4_ParseReturns ==
    (entry = "ParseHostString" /\ limit >= UnitWeight) =>
        IF mpc = "returned" THEN Len(tgtHosts) = TotalSize(hosts)
                            ELSE ENABLED NextParse

\* C8 for one Target h: without address it has no MAC address, Location
\* UnknownLoc and Status OfflineFiltered or Unknown
NoAddressFields(h) ==
    h.IPAddr = NilIP =>
        /\ h.MACAddr = "nil"
        /\ h.Location = UnknownLoc
        /\ h.Status \in {OfflineFiltered, Unknown}

\* C8: every Target that NewTarget or AsyncNewTarget has made and that has no
\* address has no MAC address, Location UnknownLoc and Status OfflineFiltered
\* or Unknown, and neither Ping nor QueryMac nor LookUpVendor ran for it,
\* whether the lookup of a host name failed or an IP-like text did not parse.
C8_NoAddressNoProbing ==
    /\ \A u \in Units :
        units[u].pc \in {"release", "send", "done"} =>
            /\ NoAddressFields(units[u])
            /\ units[u].IPAddr = NilIP => units[u].ran = {}
    /\ \A k \in 1..Len(tgtHosts) : NoAddressFields(tgtHosts[k])

\* C8 happens: ParseHostString has returned a Target whose host name did not
\* resolve and a Target whose IP-like text did not parse
C8_BothFailures ==
    /\ entry = "ParseHostString"
    /\ mpc = "returned"
    /\ \E k, l \in 1..Len(tgtHosts) :
        /\ tgtHosts[k].InitialTarget = HostToken /\ tgtHosts[k].IPAddr = NilIP
        /\ tgtHosts[l].InitialTarget = BadDotted /\ tgtHosts[l].IPAddr = NilIP

\* the numbers a part of a dotted token stands for
PartValues(part) == IF Len(part) = 2 THEN part[1]..part[2] ELSE {part[1]}

\* the values octet j takes in the block of ip with prefix length p
BlockOctets(ip, p, j) == Mask(ip, p)[j]..BlockLast(ip, p)[j]

\* the addresses a token stands for: the members of a CIDR block, the
\* product of the parts of a dash range, any other token itself
Expansion(tok) ==
    IF tok.kind = "cidr"
      THEN {IPString(<<a, b, c, d>>) :
                a \in BlockOctets(tok.ip, tok.prefix, 1),
                b \in BlockOctets(tok.ip, tok.prefix, 2),
                c \in BlockOctets(tok.ip, tok.prefix, 3),
                d \in BlockOctets(tok.ip, tok.prefix, 4)}
    ELSE IF HasDash(tok)
      THEN {[kind |-> "dotted", parts |-> <<<<a>>, <<b>>, <<c>>, <<d>>>>] :
                a \in PartValues(tok.parts[1]), b \in PartValues(tok.parts[2]),
                c \in PartValues(tok.parts[3]), d \in PartValues(tok.parts[4])}
    ELSE {tok}

\* the multiset of the addresses of all tokens
RECURSIVE ExpansionBag(_)
ExpansionBag(hs) ==
    IF hs = << >> THEN EmptyBag
    ELSE SetToBag(Expansion(Head(hs))) (+) ExpansionBag(Tail(hs))

\* the multiset of the InitialTarget values of a sequence of Targets
InitialTargets(ts) ==
    [x \in {ts[k].InitialTarget : k \in 1..Len(ts)} |->
        Cardinality({k \in 1..Len(ts) : ts[k].InitialTarget = x})]

\* C9: the Targets ParseHostString returns have, as a multiset, the
\* InitialTarget values that the tokens expand to: nothing is lost, added or
\* merged, in any order of completion.
C9_OneTargetPerAddress ==
    (entry = "ParseHostString" /\ mpc = "returned") =>
        InitialTargets(tgtHosts) = ExpansionBag(hosts)

\* C9 happens: ParseHostString has returned the two Targets of a CIDR block,
\* the one spawned last first
C9_ReversedBlock ==
    /\ entry = "ParseHostString"
    /\ mpc = "returned"
    /\ Len(hosts) = 1
    /\ hosts[1].kind = "cidr"
    /\ Len(tgtHosts) = 2
    /\ tgtHosts[1].InitialTarget = IPString(LastAddr)

\* C10: for a CIDR token of any prefix length the loop ends after it has
\* spawned one unit for each of the 2^(bits - prefix) addresses of the
\* block: never more, no address twice, every address inside the block, the
\* first and the last address of the block among them.
C10_CidrExpansion ==
    (entry = "ParseHostString" /\ Len(hosts) = 1 /\ hosts[1].kind = "cidr") =>
        LET tok == hosts[1]
            size == Pow2(AddrBits - tok.prefix)
            spawned == {units[u].InitialTarget : u \in Units}
        IN /\ hostCount <= size
           /\ \A u, v \in Units : u # v => units[u].InitialTarget # units[v].InitialTarget
           /\ spawned \subseteq Expansion(tok)
           /\ mpc = "collect" =>
                /\ hostCount = size
                /\ IPString(Mask(tok.ip, tok.prefix)) \in spawned
                /\ IPString(BlockLast(tok.ip, tok.prefix)) \in spawned


\* the order of dotted addresses: the first octet counts most
LexLess(x, y) ==
    \E j \in 1..IPv4len :
        /\ x.parts[j][1] < y.parts[j][1]
        /\ \A i \in 1..(j - 1) : x.parts[i][1] = y.parts[i][1]

\* C11: for a dash range token the units are spawned for the product of
\* the four lists of octet values (a number gives one value, a-b every
\* integer from a to b), one unit for each combination, in ascending order
\* with the first octet varying slowest and the last fastest.
C11_RangeProductInOrder ==
    (entry = "ParseHostString" /\ Len(hosts) = 1 /\ hosts[1].kind = "dotted"
        /\ HasDash(hosts[1])) =>
        /\ \A u \in Units : units[u].InitialTarget \in Expansion(hosts[1])
        /\ \A u, v \in Units :
            u < v => LexLess(units[u].InitialTarget, units[v].InitialTarget)
        /\ mpc = "collect" => Len(units) = Cardinality(Expansion(hosts[1]))

\* C11 happens: the token 0-1.1.1-3.1 is expanded, its six units spawned
C11_TwoRangesExpanded ==
    /\ entry = "ParseHostString"
    /\ mpc = "collect"
    /\ hosts = <<[kind |-> "dotted",
                  parts |-> <<<<0, 1>>, <<1>>, <<1, OctetSize - 1>>, <<1>>>>]>>
    /\ Len(units) = 2 * (OctetSize - 1)


(***************************************************************************)
(* The capacity of the semaphore.  Every operation asks ulimit.GetUlimit   *)
(* for the soft limit of open files and takes 1024 when that fails; the    *)
(* soft limit is whatever the process was started with.                    *)
(***************************************************************************)
\* largest soft limit the lookup answers here
MaxUlimit == 4
\* limit = 1024 of the error branch
FallbackLimit == 1024

\* ulimit.GetUlimit: an error, or the soft limit
UlimitAnswers ==
    {[err |-> TRUE, l |-> 0]} \cup {[err |-> FALSE, l |-> n] : n \in 0..MaxUlimit}

\* if err != nil { limit = 1024 } else { limit = int64(l) }
NewLimit(a) == IF a.err THEN FallbackLimit ELSE a.l

\* any operation, its semaphore made from any answer of the lookup
\* (NewTarget makes none)
InitUlimit ==
    \/ /\ \E a \in UlimitAnswers : limit = NewLimit(a)
       /\ ParseEntry \/ TargetsScanEntry \/ TargetScanEntry
    \/ InitNewTarget

SpecUlimit == InitUlimit /\ [][Next]_vars

\* C12: at every call of Acquire the weight asked for is at most the
\* capacity the semaphore was made with, for the weight 4 of a resolution
\* unit and for the weight 1 of a port probe, so that no Acquire waits for
\* more than the semaphore can ever give.
C12_WeightFitsCapacity ==
    /\ \A u \in Units : units[u].pc = "acquire" => UnitWeight <= limit
    /\ \A ti \in Probes : pr[ti[1]][ti[2]].pc = "acquire" => ProbeWeight <= limit


\* C13: when the scan of a Target is complete and a port is in Open, Closed
\* or Filtered, Status is not Unknown, whatever it was before the scan and
\* however the probes interleaved; and no step writes Unknown to Status.
C13_ClassifiedNotUnknown ==
    /\ [](\A t \in 1..Len(tgt) :
            (ScanComplete(t) /\ r[t] # NewPortResults) => tgt[t].Status # Unknown)
    /\ [][\A t \in 1..Len(tgt) :
            tgt'[t].Status = Unknown => tgt[t].Status = Unknown]_vars

\* C13 happens: a scan is complete whose only classified port timed out, and
\* Status is OfflineFiltered
C13_OnlyTimeout ==
    \E t \in 1..Len(tgt) :
        /\ ScanComplete(t)
        /\ r[t].Open = << >> /\ r[t].Closed = << >> /\ r[t].Filtered # << >>
        /\ tgt[t].Status = OfflineFiltered
        /\ \E i \in 1..Len(tgt[t].Ports) : pr[t][i].err = ErrNoRoute


\* C14: a probe whose connect failed with "too many open files" releases its
\* weight before it pauses and resubmits, so it holds no weight during the
\* pause: when a probe pauses and every other probe of the scan is before
\* its Acquire or has returned, no weight is outstanding.
C14_NoWeightDuringPause ==
    (/\ \E ti \in Probes : pr[ti[1]][ti[2]].pc = "sleep"
     /\ \A ti \in Probes :
            /\ pr[ti[1]][ti[2]].pc \in {"idle", "acquire", "sleep", "done"}
            /\ tail[ti[1]][ti[2]] = 0)
        => cur = 0


\* the Ports entries of target t whose message `ch <- res` has been received
Sent(t) ==
    {i \in 1..Len(tgt[t].Ports) : pr[t][i].pc \in {"releaseOpen", "close", "done"}}

\* Target.Scan under a scheduler that runs a runnable goroutine eventually,
\* with connects that end and MaxRetries resubmissions at most
SpecTargetScanFair == SpecTargetScan /\ WF_vars(NextTargetScan)

\* C15: a scan of a Target with k ports receives one message per entry of
\* Ports and k in all (a probe that pauses and resubmits has sent nothing, its
\* successor sends the one message); Target.Scan returns, and when it has
\* returned it has received k messages and no probe is blocked on a send.
C15_OneMessagePerEntry ==
    /\ [](\A t \in 1..Len(tgt) :
            /\ rcv[t] = Cardinality(Sent(t))
            /\ mpc = "returned" =>
                /\ rcv[t] = Len(tgt[t].Ports)
                /\ \A i \in 1..Len(tgt[t].Ports) : pr[t][i].pc \notin {"sendOpen", "send"})
    /\ [][\A t \in 1..Len(tgt) :
            /\ rcv'[t] \in {rcv[t], rcv[t] + 1}
            /\ \A i \in 1..Len(tgt[t].Ports) :
                \/ pr[t][i].pc \in {"sleep", "resubmit"} /\ pr'[t][i].pc # pr[t][i].pc
                \/ tail'[t][i] # tail[t][i]
                => rcv' = rcv]_vars
    /\ <>(mpc = "returned")

\* a scan of MaxPorts ports has returned after one of its probes was resubmitted
C15_ReturnedAfterResubmit ==
    /\ entry = "Target.Scan"
    /\ mpc = "returned"
    /\ Len(tgt[1].Ports) = MaxPorts
    /\ rcv[1] = MaxPorts
    /\ retries > 0


(***************************************************************************)
(* Claims about the weight the resolution units hold.                      *)
(***************************************************************************)
\* how many units stand at one of the given places
UnitsAt(pcs) == Cardinality({u \in Units : units[u].pc \in pcs})

\* between scanLock.Acquire(4) and scanLock.Release(3)
UnitHolding == {"resolve", "ping", "queryMac", "lookUpVendor", "release"}

\* C16 as stated: after k units of a ParseHostString call have delivered, the
\* outstanding weight is k plus 4 for each unit that has acquired and has not
\* delivered yet.
C16_DeliveredPlusFourPerRunning ==
    entry = "ParseHostString" =>
        cur = UnitsAt({"done"}) + UnitWeight * UnitsAt(UnitHolding \cup {"send"})

\* C16, amended: a unit acquires 4 before it resolves and releases exactly 3
\* before it delivers, and nothing else changes the outstanding weight; so
\* the outstanding weight is 4 for each unit between its Acquire and its
\* Release and 1 for each unit past its Release, delivered or still waiting
\* to deliver.
C16_UnitWeightAccount ==
    /\ [](entry = "ParseHostString" =>
            cur = UnitWeight * UnitsAt(UnitHolding)
                    + (UnitWeight - UnitRelease) * UnitsAt({"send", "done"}))
    /\ [][entry = "ParseHostString" =>
            /\ cur' # cur =>
                \E u \in Units :
                    \/ /\ units[u].pc = "acquire" /\ units'[u].pc = "resolve"
                       /\ cur' = cur + UnitWeight
                    \/ /\ units[u].pc = "release" /\ units'[u].pc = "send"
                       /\ cur' = cur - UnitRelease
            /\ \A u \in Units :
                units'[u].pc # units[u].pc /\ units[u].pc \in {"acquire", "release"}
                    => cur' # cur]_vars

\* the collecting loop has not started, one unit waits to deliver and another
\* is between its Acquire and its Release
C16_ReleasedNotDelivered ==
    /\ entry = "ParseHostString"
    /\ mpc = "expand"
    /\ UnitsAt({"send"}) > 0
    /\ UnitsAt(UnitHolding) > 0
    /\ cur = UnitWeight + (UnitWeight - UnitRelease)


(***************************************************************************)
(* Claims about the weight the port probes hold.                           *)
(***************************************************************************)
\* between lock.Acquire(1) and the lock.Release(1) of its branch
ProbeHolding ==
    {"dial", "setOnline", "sendOpen", "releaseOpen", "guard", "writeOnline", "readUnknown",
     "writeOffline", "sleep", "resubmit", "release"}

\* the scanPort goroutines that have acquired and not released: the current
\* one of each Ports entry and the ones that resubmitted their port
Holders ==
    Cardinality({ti \in Probes : pr[ti[1]][ti[2]].pc \in ProbeHolding})
        + Cardinality({tin \in Probes \X (1..MaxRetries) : tin[2] <= tail[tin[1][1]][tin[1][2]]})

\* C17: every scanPort goroutine acquires 1 once, before its connect, and
\* releases 1 once on each of its paths, so the outstanding weight is the
\* number of goroutines between their Acquire and their Release, changes by
\* one goroutine's 1 at a time, and is 0 when every probe has returned.
C17_ProbeWeightAccount ==
    /\ [](entry \in {"Target.Scan", "Targets.Scan"} =>
            /\ cur = ProbeWeight * Holders
            /\ (\A t \in 1..Len(tgt) : spc[t] # "start" /\ ProbesFinished(t)) => cur = 0)
    /\ [][(entry \in {"Target.Scan", "Targets.Scan"}) =>
            (/\ cur' \in {cur - ProbeWeight, cur, cur + ProbeWeight}
             /\ \A ti \in Probes :
                 /\ (pr[ti[1]][ti[2]].pc = "acquire" /\ pr'[ti[1]][ti[2]].pc # "acquire") =>
                        (pr'[ti[1]][ti[2]].pc = "dial" /\ cur' = cur + ProbeWeight)
                 /\ (/\ pr[ti[1]][ti[2]].pc \in {"releaseOpen", "release"}
                     /\ pr'[ti[1]][ti[2]].pc # pr[ti[1]][ti[2]].pc) =>
                        (cur' = cur - ProbeWeight)
                 /\ (tail'[ti[1]][ti[2]] < tail[ti[1]][ti[2]]) =>
                        (cur' = cur - ProbeWeight))]_vars

\* a scan whose probes have all returned, one after an open connect, one
\* after a refused one, one of them after a pause and resubmission
C17_AllPathsReturned ==
    /\ entry = "Target.Scan"
    /\ ProbesFinished(1)
    /\ retries > 0
    /\ r[1].Open # << >>
    /\ r[1].Closed # << >>
    /\ cur = 0


\* C18: Targets.Scan starts no probe for a Target without address: none of
\* its scanPort goroutines ever leaves its start (no connect, no Acquire), no
\* Target.scan runs for it, no step changes the Target (Status, Location,
\* MACAddr and Ports at the return are those of the call), and after the
\* dispatch it is listed in Unresolved.
C18_UnresolvedUntouched ==
    /\ [](entry = "Targets.Scan" =>
            \A t \in 1..Len(tgt) : tgt[t].IPAddr = NilIP =>
                /\ spc[t] = "idle"
                /\ rcv[t] = 0
                /\ r[t] = NewPortResults
                /\ \A i \in 1..Len(tgt[t].Ports) : pr[t][i] = IdleProbe /\ tail[t][i] = 0
                /\ mpc # "dispatch" => \E k \in 1..Len(Unresolved) : Unresolved[k] = t
                /\ \A k \in 1..Len(Resolved) : Resolved[k].Target # t)
    /\ [][entry = "Targets.Scan" =>
            /\ Len(tgt') = Len(tgt)
            /\ \A t \in 1..Len(tgt) : tgt[t].IPAddr = NilIP => tgt'[t] = tgt[t]
            /\ (\A t \in 1..Len(tgt) : tgt[t].IPAddr = NilIP) => cur' = 0]_vars

\* Targets.Scan has returned: its first Target has no address, one port and
\* Status Unknown, its second has been scanned and found online
C18_ReturnedWithUnresolved ==
    /\ entry = "Targets.Scan"
    /\ mpc = "returned"
    /\ Len(tgt) = 2
    /\ tgt[1].IPAddr = NilIP
    /\ Len(tgt[1].Ports) = 1
    /\ tgt[1].Status = Unknown
    /\ Unresolved = <<1>>
    /\ Len(Resolved) = 1
    /\ Resolved[1].Ports.Open # << >>
    /\ tgt[2].Status = Online


\* the connections net.DialTimeout has opened and conn.Close() has not closed
OpenConns ==
    Cardinality({ti \in Probes :
                    pr[ti[1]][ti[2]].pc \in {"setOnline", "sendOpen", "releaseOpen", "close"}})

\* C19: the connections opened by port probes and not yet closed never
\* outnumber the outstanding weight, so never the capacity.
C19_OpenConnsWithinWeight ==
    entry \in {"Target.Scan", "Targets.Scan"} => OpenConns <= cur /\ OpenConns <= limit


\* Targets.Scan under a scheduler that runs a runnable goroutine eventually,
\* with connects that end and MaxRetries resubmissions at most
SpecTargetsScanFair == SpecTargetsScan /\ WF_vars(NextTargetsScan)

\* C20: Targets.Scan never gets stuck: as long as it has not returned and a
\* goroutine of it is left, some goroutine can take a step; and it ends:
\* Targets.Scan returns with a ScanResult of every Target that has an
\* address, and every probe acquires its weight and returns.
C20_TargetsScanReturns ==
    /\ [](\/ mpc = "returned" /\ \A t \in 1..Len(tgt) : ProbesFinished(t) \/ spc[t] = "idle"
          \/ ENABLED NextTargetsScan)
    /\ <>[](/\ mpc = "returned"
            /\ Len(Resolved) = Expected
            /\ \A t \in 1..Len(tgt) :
                tgt[t].IPAddr # NilIP => spc[t] = "done" /\ ProbesFinished(t))

\* Targets.Scan has returned at capacity 1 after two probes that each kept
\* the one weight while sending their open port
C20_ReturnedUnderContention ==
    /\ entry = "Targets.Scan"
    /\ mpc = "returned"
    /\ limit = 1
    /\ Len(Resolved) = 2
    /\ \A k \in 1..2 : Resolved[k].Ports.Open # << >>
    /\ \A t \in 1..Len(tgt) : ProbesFinished(t)

=============================================================================
